---- MODULE Spec2Model ----
(***************************************************************************)
(* Frame pipelining of lise's Renderer (src/src/renderer.rs) and its       *)
(* Swapchain (src/src/renderer/swapchain.rs): the host calls begin_frame,  *)
(* end_frame and recreate_swapchain; the device completes submitted        *)
(* batches asynchronously and in submission order. Beside the renderer:    *)
(* the swapchain property selection (swapchain.rs), Buffer (buffer.rs),    *)
(* FreeList (container.rs) and Node with its iterator (node.rs), each      *)
(* under a specification of its own.                                       *)
(***************************************************************************)
EXTENDS Integers, Sequences, FiniteSets, TLC

\* renderer.rs:20
MAX_FRAMES_IN_FLIGHT == 2

\* Bounds of the model.
MaxImages == 3
MaxTicks == 4
MaxQueue == 3
MaxModes == 3
MaxFormats == 3
MaxBufferOps == 4
\* u32 is scaled to 0 .. MaxU32: the sums below overflow past MaxU32 as the
\* u32 sums of the program overflow past u32::MAX.
MaxU32 == 7
MaxCap == 3
MaxPush == 3
MaxNodes == 4
MaxYield == 5

VARIABLES
    current_frame,        \* Renderer.current_frame
    current_image_index,  \* Renderer.current_image_index
    out_of_date,          \* Swapchain.out_of_date
    num_images,           \* swapchain.images.len(), also command_buffers.len()
    fence,                \* in_flight_fence of each sync object: signalled?
    recording,            \* command buffer j is between begin and end
    queue,                \* batches submitted to the graphics queue, not yet completed
    pc,                   \* position of the caller: "idle", "recreated", "in_frame"
    returned,             \* bool returned by the last begin_frame or end_frame
    status,               \* "running", "panicked" or "dropped"
    frames,               \* number of begin_frame calls so far
    calls,                \* device calls issued in the current tick, in order
    present_modes,        \* SwapchainSupportDetails.present_modes given to the choice
    present_mode,         \* the present mode chosen from them, "unset" before the choice
    formats,              \* SwapchainSupportDetails.formats given to the choice
    surface_format,       \* the surface format chosen from them
    min_image_count,      \* SwapchainSupportDetails.capabilities.min_image_count
    max_image_count,      \* SwapchainSupportDetails.capabilities.max_image_count
    image_count,          \* the image_count Swapchain::new asks for
    is_locked,            \* Buffer.is_locked
    buffer_status,        \* "ok", or how the last Buffer method panicked: "assertion", "unwrap"
    buffer_calls,         \* device calls and copies of the last Buffer method, in order
    buffer_log,           \* the Buffer methods called so far, in order
    cap,                  \* FreeList.cap
    allocated,            \* number of slots of the allocations behind data and free_indices
    data,                 \* FreeList.data: the element each slot holds, Uninit if never written
    free_indices,         \* FreeList.free_indices: the flag of each slot
    pushed,               \* the push_first calls so far: the value and the index returned
    dropped,              \* the slots Drop for FreeList passed to drop_in_place, in order
    list_status,          \* "live", "panicked", "dropped" or "crashed"
    node_count,           \* number of Nodes created so far; they are numbered from 1
    first_child,          \* Node.first_child of each node
    next_sibling,         \* Node.next_sibling of each node
    parent,               \* Node.parent of each node
    stale,                \* the nodes whose parent pointer is the address their parent was moved from
    owned,                \* the nodes held by value by the caller (not yet added to a parent)
    iter_root,            \* NodeIterator.root, None when there is no iterator
    iter_current,         \* NodeIterator.current
    yielded,              \* the nodes next has returned so far, in order
    iter_status           \* "none", "running", "ended" (next returned None) or "ub"

\* The inputs and results of the swapchain property selection.
svars == <<present_modes, present_mode, formats, surface_format,
           min_image_count, max_image_count, image_count>>

\* A Buffer and the calls made on it.
bvars == <<is_locked, buffer_status, buffer_calls, buffer_log>>

\* A FreeList and the calls made on it.
lvars == <<cap, allocated, data, free_indices, pushed, dropped, list_status>>

\* The Nodes, and a NodeIterator over them.
nvars == <<node_count, first_child, next_sibling, parent, stale, owned,
           iter_root, iter_current, yielded, iter_status>>

\* The objects beside the renderer and its swapchain.
ovars == <<bvars, lvars, nvars>>

vars == <<current_frame, current_image_index, out_of_date, num_images, fence,
          recording, queue, pc, returned, status, frames, calls, svars, ovars>>

\* The fields of the renderer and of its swapchain, and the caller's position.
rvars == <<current_frame, current_image_index, out_of_date, num_images, fence,
           recording, queue, pc, returned, status, frames, calls>>

Slots == 0 .. (MAX_FRAMES_IN_FLIGHT - 1)

ImageCounts == 1 .. MaxImages

CommandBufferIds == 0 .. (MaxImages - 1)

\* SyncObject.image_available_semaphore of slot n
ImageAvailable(n) == <<"image_available_semaphore", n>>

\* SyncObject.queue_complete_semaphore of slot n
QueueComplete(n) == <<"queue_complete_semaphore", n>>

\* What vkAcquireNextImageKHR can answer on a surface of k images: an image
\* index, the out-of-date error, or another error.
AcquireResults(k) ==
    [code : {"SUCCESS"}, index : 0 .. (k - 1)]
    \cup [code : {"ERROR_OUT_OF_DATE_KHR", "ERROR_OTHER"}, index : {0}]

\* The Option::None of acquire_next_image_index.
None == -1

\* What vkQueuePresentKHR can answer: Ok(false), Ok(true), out of date, another error.
PresentResults == {"OK", "SUBOPTIMAL", "ERROR_OUT_OF_DATE_KHR", "ERROR_OTHER"}

NextFrameStride(cf) == (cf + 2) % MAX_FRAMES_IN_FLIGHT

\* The index arithmetic of next_sync_object.
NextFrame(cf) == (cf + 1) % MAX_FRAMES_IN_FLIGHT

\* Swapchain::acquire_next_image_index: the Option<u32> it returns.
AcquireReturn(r) == IF r.code = "SUCCESS" THEN r.index ELSE None

\* Swapchain::acquire_next_image_index: out_of_date after the call.
AcquireOutOfDate(r, ood) == IF r.code = "ERROR_OUT_OF_DATE_KHR" THEN TRUE ELSE ood

PresentOutOfDateForgotten(r, ood) == ood

\* Swapchain::present: out_of_date after the call.
PresentOutOfDate(r, ood) == IF r = "ERROR_OUT_OF_DATE_KHR" THEN TRUE ELSE ood

\* Swapchain::present: the bool it returns.
PresentReturn(r) == r = "SUBOPTIMAL"

\* Command buffer j has a submission the device has not completed.
Pending(j) == \E i \in DOMAIN queue : queue[i].cb = j

\* Renderer::new
RendererInit ==
    /\ current_frame = 0
    /\ current_image_index = 0
    /\ out_of_date = FALSE
    /\ num_images \in ImageCounts
    /\ fence = [n \in Slots |-> TRUE]
    /\ recording = [j \in CommandBufferIds |-> FALSE]
    /\ queue = <<>>
    /\ pc = "idle"
    /\ returned = FALSE
    /\ status = "running"
    /\ frames = 0
    /\ calls = <<>>

\* Buffer::new
BufferNew ==
    /\ is_locked = FALSE
    /\ buffer_status = "ok"
    /\ buffer_calls = <<>>
    /\ buffer_log = <<>>

\* A slot of data that was never written.
Uninit == [id |-> 0, value |-> "uninit"]

\* FreeList::new (c = 0) and FreeList::with_capacity(c): c slots, all flagged free.
FreeListOf(c) ==
    /\ cap = c
    /\ allocated = c
    /\ data = [i \in 0 .. (c - 1) |-> Uninit]
    /\ free_indices = [i \in 0 .. (c - 1) |-> TRUE]
    /\ pushed = <<>>
    /\ dropped = <<>>
    /\ list_status = "live"

NodeIds == 1 .. MaxNodes

\* No Node has been created and there is no iterator.
NoNodes ==
    /\ node_count = 0
    /\ first_child = [n \in NodeIds |-> None]
    /\ next_sibling = [n \in NodeIds |-> None]
    /\ parent = [n \in NodeIds |-> None]
    /\ stale = {}
    /\ owned = {}
    /\ iter_root = None
    /\ iter_current = None
    /\ yielded = <<>>
    /\ iter_status = "none"

\* The objects beside the renderer after their construction.
OthersInit == BufferNew /\ FreeListOf(0) /\ NoNodes

\* No image count has been computed yet.
NoCount == -1

\* The surface capabilities are not looked at.
NoCapabilities ==
    /\ min_image_count = 0
    /\ max_image_count = 0
    /\ image_count = NoCount

\* No surface format has been chosen yet.
NoFormat == [format |-> "unset", color_space |-> "unset"]

\* The renderer after construction; the property selection is not exercised.
Init ==
    /\ RendererInit
    /\ present_modes = <<>>
    /\ present_mode = "unset"
    /\ formats = <<>>
    /\ surface_format = NoFormat
    /\ NoCapabilities
    /\ OthersInit

\* The calls of the tick so far: a tick starts at recreate_swapchain or at begin_frame.
TickCalls == IF pc = "recreated" THEN calls ELSE <<>>

BeginCallsRetry(n, r) ==
    TickCalls \o
    << [op |-> "wait_for_fences", fence |-> n],
       [op |-> "acquire_next_image", sem |-> ImageAvailable(n), result |-> r] >>
    \o (IF r.code = "ERROR_OUT_OF_DATE_KHR"
        THEN << [op |-> "device_wait_idle"], [op |-> "create_swapchain"],
                [op |-> "acquire_next_image", sem |-> ImageAvailable(n), result |-> r] >>
        ELSE <<>>)

\* begin_frame up to the acquire: next_sync_object, wait_for_fences, acquire.
BeginCalls(n, r) ==
    TickCalls \o
    << [op |-> "wait_for_fences", fence |-> n],
       [op |-> "acquire_next_image", sem |-> ImageAvailable(n), result |-> r] >>

BeginFrameSkipAfterReset ==
    /\ status = "running" /\ pc \in {"idle", "recreated"} /\ frames < MaxTicks
    /\ fence[current_frame]
    /\ \E r \in AcquireResults(num_images) :
        /\ AcquireReturn(r) = None
        /\ out_of_date' = AcquireOutOfDate(r, out_of_date)
        /\ calls' = BeginCalls(current_frame, r)
    /\ fence' = [fence EXCEPT ![current_frame] = FALSE]
    /\ current_frame' = NextFrame(current_frame)
    /\ returned' = TRUE
    /\ pc' = "in_frame"
    /\ frames' = frames + 1
    /\ UNCHANGED <<current_image_index, num_images, recording, queue, status>>
    /\ UNCHANGED <<svars, ovars>>

\* begin_frame when the acquire gives no image: returns true.
BeginFrameSkip ==
    /\ status = "running" /\ pc \in {"idle", "recreated"} /\ frames < MaxTicks
    /\ fence[current_frame]
    /\ \E r \in AcquireResults(num_images) :
        /\ AcquireReturn(r) = None
        /\ out_of_date' = AcquireOutOfDate(r, out_of_date)
        /\ calls' = BeginCalls(current_frame, r)
    /\ current_frame' = NextFrame(current_frame)
    /\ returned' = TRUE
    /\ pc' = "in_frame"
    /\ frames' = frames + 1
    /\ UNCHANGED <<current_image_index, num_images, fence, recording, queue, status>>
    /\ UNCHANGED <<svars, ovars>>

\* begin_frame when the acquire gives an image: reset the fence, begin the command buffer.
BeginFrameOk ==
    /\ status = "running" /\ pc \in {"idle", "recreated"} /\ frames < MaxTicks
    /\ fence[current_frame]
    /\ NextFrame(current_frame) < num_images
    /\ \E r \in AcquireResults(num_images) :
        /\ AcquireReturn(r) # None
        /\ current_image_index' = AcquireReturn(r)
        /\ calls' = BeginCalls(current_frame, r) \o
             << [op |-> "reset_fences", fence |-> current_frame],
                [op |-> "begin_command_buffer", cb |-> NextFrame(current_frame)] >>
    /\ out_of_date' = out_of_date
    /\ fence' = [fence EXCEPT ![current_frame] = FALSE]
    /\ current_frame' = NextFrame(current_frame)
    /\ recording' = [recording EXCEPT ![NextFrame(current_frame)] = TRUE]
    /\ returned' = FALSE
    /\ pc' = "in_frame"
    /\ frames' = frames + 1
    /\ UNCHANGED <<num_images, queue, status>>
    /\ UNCHANGED <<svars, ovars>>

\* begin_frame when command_buffers has no element current_frame: index out of bounds.
BeginFramePanic ==
    /\ status = "running" /\ pc \in {"idle", "recreated"} /\ frames < MaxTicks
    /\ fence[current_frame]
    /\ NextFrame(current_frame) >= num_images
    /\ \E r \in AcquireResults(num_images) :
        /\ AcquireReturn(r) # None
        /\ current_image_index' = AcquireReturn(r)
        /\ calls' = BeginCalls(current_frame, r) \o
             << [op |-> "reset_fences", fence |-> current_frame] >>
    /\ fence' = [fence EXCEPT ![current_frame] = FALSE]
    /\ current_frame' = NextFrame(current_frame)
    /\ status' = "panicked"
    /\ frames' = frames + 1
    /\ UNCHANGED <<out_of_date, num_images, recording, queue, pc, returned>>
    /\ UNCHANGED <<svars, ovars>>

begin_frame == BeginFrameSkip \/ BeginFrameOk \/ BeginFramePanic

\* The batch end_frame hands to queue_submit; recorded tells whether begin_frame
\* began the command buffer in this frame (it did not in a skipped frame).
SubmitInfo ==
    [cb |-> current_frame,
     wait |-> ImageAvailable(current_frame),
     signal |-> QueueComplete(current_frame),
     fence |-> current_frame,
     image |-> current_image_index,
     recorded |-> recording[current_frame]]

\* The semaphore end_frame hands to Swapchain::present.
PresentWait == ImageAvailable(current_frame)

\* end_frame: end the command buffer, submit it, present the image.
EndFrameSubmit ==
    /\ status = "running" /\ pc = "in_frame"
    /\ current_frame < num_images
    /\ Len(queue) < MaxQueue
    /\ recording' = [recording EXCEPT ![current_frame] = FALSE]
    /\ queue' = Append(queue, SubmitInfo)
    \* a fence that is signalled when it is submitted is invalid usage: it
    \* either stays signalled or is taken as unsignalled until the batch completes
    /\ \E after \in (IF fence[current_frame] THEN BOOLEAN ELSE {FALSE}) :
        fence' = [fence EXCEPT ![current_frame] = after]
    /\ \E r \in PresentResults :
        /\ out_of_date' = PresentOutOfDate(r, out_of_date)
        /\ status' = IF r = "ERROR_OTHER" THEN "panicked" ELSE "running"
        /\ returned' = PresentReturn(r)
        /\ calls' = calls \o
             << [op |-> "queue_submit", batch |-> SubmitInfo,
                 fence_signalled |-> fence[current_frame], result |-> "SUCCESS"],
                [op |-> "queue_present", wait |-> PresentWait,
                 image |-> current_image_index, result |-> r] >>
    /\ pc' = "idle"
    /\ UNCHANGED <<current_frame, current_image_index, num_images, frames>>
    /\ UNCHANGED <<svars, ovars>>

\* end_frame when queue_submit fails: the unwrap panics, nothing is presented.
EndFrameSubmitError ==
    /\ status = "running" /\ pc = "in_frame"
    /\ current_frame < num_images
    /\ recording' = [recording EXCEPT ![current_frame] = FALSE]
    /\ calls' = Append(calls, [op |-> "queue_submit", batch |-> SubmitInfo,
                               fence_signalled |-> fence[current_frame],
                               result |-> "ERROR_OTHER"])
    /\ status' = "panicked"
    /\ UNCHANGED <<current_frame, current_image_index, out_of_date, num_images,
                   fence, queue, pc, returned, frames>>
    /\ UNCHANGED <<svars, ovars>>

\* end_frame when command_buffers has no element current_frame: index out of bounds.
EndFramePanic ==
    /\ status = "running" /\ pc = "in_frame"
    /\ current_frame >= num_images
    /\ status' = "panicked"
    /\ UNCHANGED <<current_frame, current_image_index, out_of_date, num_images,
                   fence, recording, queue, pc, returned, frames, calls>>
    /\ UNCHANGED <<svars, ovars>>

end_frame == EndFrameSubmit \/ EndFrameSubmitError \/ EndFramePanic

\* The caller honours begin_frame's "frame skipped" and does not call end_frame.
SkipTick ==
    /\ status = "running" /\ pc = "in_frame" /\ returned
    /\ pc' = "idle"
    /\ UNCHANGED <<current_frame, current_image_index, out_of_date, num_images,
                   fence, recording, queue, returned, status, frames, calls>>
    /\ UNCHANGED <<svars, ovars>>

\* SyncObject.in_flight_fence of slot n
InFlightFence(n) == <<"in_flight_fence", n>>

\* SyncObject::destroy
SyncObjectDestroy(n) ==
    << [op |-> "destroy_semaphore", handle |-> ImageAvailable(n)],
       [op |-> "destroy_semaphore", handle |-> QueueComplete(n)],
       [op |-> "destroy_fence", handle |-> InFlightFence(n)] >>

RECURSIVE SyncObjectsDestroy(_)
\* Drop for Renderer: the loop over sync_objects, from slot n on.
SyncObjectsDestroy(n) ==
    IF n >= MAX_FRAMES_IN_FLIGHT THEN <<>>
    ELSE SyncObjectDestroy(n) \o SyncObjectsDestroy(n + 1)

\* Drop for CommandBuffer, for each of the k command buffers of the Vec.
CommandBuffersDrop(k) ==
    [j \in 1 .. k |-> [op |-> "free_command_buffers", handle |-> <<"command_buffer", j - 1>>]]

RendererDropTwice ==
    SyncObjectsDestroy(0) \o CommandBuffersDrop(num_images)
    \o << [op |-> "destroy_command_pool", handle |-> <<"command_pool", 0>>] >>
    \o CommandBuffersDrop(num_images)

\* Drop for Renderer: sync objects, ManuallyDrop::drop(command_buffers), command pool.
RendererDrop ==
    SyncObjectsDestroy(0) \o CommandBuffersDrop(num_images)
    \o << [op |-> "destroy_command_pool", handle |-> <<"command_pool", 0>>] >>

\* Drop for Swapchain: the image views, then the swapchain handle.
SwapchainDrop ==
    [j \in 1 .. num_images |-> [op |-> "destroy_image_view", handle |-> <<"image_view", j - 1>>]]
    \o << [op |-> "destroy_swapchain", handle |-> <<"swapchain", 0>>] >>

\* Drop for VkContext: device, surface, instance.
VkContextDrop ==
    << [op |-> "destroy_device", handle |-> <<"device", 0>>],
       [op |-> "destroy_surface", handle |-> <<"surface_khr", 0>>],
       [op |-> "destroy_instance", handle |-> <<"instance", 0>>] >>

MainLocalsDropContextFirst == VkContextDrop \o RendererDrop \o SwapchainDrop

\* The locals of main going out of scope: the renderer (its Drop, then its
\* swapchain field), then the vkcontext it borrows.
MainLocalsDrop == RendererDrop \o SwapchainDrop \o VkContextDrop

NewSwapchainKeepsFlag == out_of_date

\* Swapchain::new: the out_of_date of the Swapchain it builds.
NewSwapchainOutOfDate == FALSE

\* recreate_swapchain: wait for the device to be idle, build a new Swapchain,
\* assign it (which drops the old one).
recreate_swapchain ==
    /\ status = "running" /\ pc = "idle"
    /\ queue = <<>>
    /\ out_of_date' = NewSwapchainOutOfDate
    /\ calls' = << [op |-> "device_wait_idle"], [op |-> "create_swapchain"] >>
                \o SwapchainDrop
    /\ pc' = "recreated"
    /\ UNCHANGED <<current_frame, current_image_index, num_images, fence,
                   recording, queue, returned, status, frames>>
    /\ UNCHANGED <<svars, ovars>>

\* main leaves the loop: device_wait_idle, then the locals are dropped.
Shutdown ==
    /\ status = "running" /\ pc \in {"idle", "recreated"}
    /\ queue = <<>>
    /\ calls' = << [op |-> "device_wait_idle"] >> \o MainLocalsDrop
    /\ status' = "dropped"
    /\ UNCHANGED <<current_frame, current_image_index, out_of_date, num_images,
                   fence, recording, queue, pc, returned, frames>>
    /\ UNCHANGED <<svars, ovars>>

\* A panic unwinds through main: the locals are dropped, nothing waits for the device.
Unwind ==
    /\ status = "panicked"
    /\ calls' = MainLocalsDrop
    /\ status' = "dropped"
    /\ UNCHANGED <<current_frame, current_image_index, out_of_date, num_images,
                   fence, recording, queue, pc, returned, frames>>
    /\ UNCHANGED <<svars, ovars>>

\* The device completes the oldest batch and signals the fence passed with it.
DeviceComplete ==
    /\ queue # <<>>
    /\ fence' = [fence EXCEPT ![Head(queue).fence] = TRUE]
    /\ queue' = Tail(queue)
    /\ UNCHANGED <<current_frame, current_image_index, out_of_date, num_images,
                   recording, pc, returned, status, frames, calls>>
    /\ UNCHANGED <<svars, ovars>>

Next ==
    \/ begin_frame
    \/ end_frame
    \/ SkipTick
    \/ recreate_swapchain
    \/ Shutdown
    \/ Unwind
    \/ DeviceComplete

Spec == Init /\ [][Next]_vars

\* vk::PresentModeKHR values a surface can report.
PresentModes == {"MAILBOX", "FIFO", "IMMEDIATE", "FIFO_RELAXED"}

\* The lists of present modes of at most MaxModes elements.
PresentModeLists == UNION {[1 .. k -> PresentModes] : k \in 0 .. MaxModes}

\* slice::contains
Contains(list, x) == \E i \in DOMAIN list : list[i] = x

\* SwapchainSupportDetails::choose_swapchain_surface_present_mode
choose_swapchain_surface_present_mode(available_present_modes) ==
    IF Contains(available_present_modes, "MAILBOX") THEN "MAILBOX"
    ELSE IF Contains(available_present_modes, "FIFO") THEN "FIFO"
    ELSE "IMMEDIATE"

\* The surface reports some list of present modes.
SelectInit ==
    /\ RendererInit
    /\ present_modes \in PresentModeLists
    /\ present_mode = "unset"
    /\ formats = <<>>
    /\ surface_format = NoFormat
    /\ NoCapabilities
    /\ OthersInit

\* get_ideal_swapchain_properties: the present mode is chosen.
ChoosePresentMode ==
    /\ present_mode = "unset"
    /\ present_mode' = choose_swapchain_surface_present_mode(present_modes)
    /\ UNCHANGED <<current_frame, current_image_index, out_of_date, num_images, fence,
                   recording, queue, pc, returned, status, frames, calls, present_modes,
                   formats, surface_format, min_image_count, max_image_count, image_count>>
    /\ UNCHANGED ovars

SelectNext == ChoosePresentMode

SelectSpec == SelectInit /\ [][SelectNext]_vars

\* vk::Format values a surface can report.
Formats == {"UNDEFINED", "B8G8R8A8_UNORM", "R8G8B8A8_SRGB"}

\* vk::ColorSpaceKHR values a surface can report.
ColorSpaces == {"SRGB_NONLINEAR", "EXTENDED_SRGB_LINEAR_EXT"}

\* vk::SurfaceFormatKHR
SurfaceFormats == [format : Formats, color_space : ColorSpaces]

\* The lists of surface formats of at most MaxFormats elements.
FormatLists == UNION {[1 .. k -> SurfaceFormats] : k \in 0 .. MaxFormats}

\* The format choose_swapchain_surface_format looks for.
PreferredFormat == [format |-> "B8G8R8A8_UNORM", color_space |-> "SRGB_NONLINEAR"]

\* available_formats[0] of an empty slice: index out of bounds.
FormatPanic == [format |-> "panic", color_space |-> "panic"]

choose_first_surface_format(available_formats) ==
    IF available_formats = <<>> THEN FormatPanic ELSE available_formats[1]

\* SwapchainSupportDetails::choose_swapchain_surface_format
choose_swapchain_surface_format(available_formats) ==
    IF Len(available_formats) = 1 /\ available_formats[1].format = "UNDEFINED"
    THEN PreferredFormat
    ELSE IF available_formats = <<>> THEN FormatPanic
    ELSE IF \E i \in DOMAIN available_formats : available_formats[i] = PreferredFormat
    THEN available_formats[CHOOSE i \in DOMAIN available_formats :
            /\ available_formats[i] = PreferredFormat
            /\ \A j \in 1 .. (i - 1) : available_formats[j] # PreferredFormat]
    ELSE available_formats[1]

\* The surface reports some list of formats.
FormatInit ==
    /\ RendererInit
    /\ present_modes = <<>>
    /\ present_mode = "unset"
    /\ formats \in FormatLists
    /\ surface_format = NoFormat
    /\ NoCapabilities
    /\ OthersInit

\* get_ideal_swapchain_properties: the surface format is chosen.
ChooseSurfaceFormat ==
    /\ surface_format = NoFormat
    /\ surface_format' = choose_swapchain_surface_format(formats)
    /\ UNCHANGED <<current_frame, current_image_index, out_of_date, num_images, fence,
                   recording, queue, pc, returned, status, frames, calls, present_modes,
                   present_mode, formats, min_image_count, max_image_count, image_count>>
    /\ UNCHANGED ovars

FormatNext == ChooseSurfaceFormat

FormatSpec == FormatInit /\ [][FormatNext]_vars

\* The image count was not computed: min_image_count + 1 panicked.
CountPanic == -2

\* u32 + u32: the sum, or on overflow a panic (overflow checks on, the debug
\* profile) or the wrapped sum (overflow checks off, the release profile).
AddU32(a, b, overflow_checks) ==
    IF a + b <= MaxU32 THEN a + b
    ELSE IF overflow_checks THEN CountPanic
    ELSE (a + b) % (MaxU32 + 1)

\* Swapchain::new: the image_count block.
ImageCount(min, max, overflow_checks) ==
    LET preferred == AddU32(min, 1, overflow_checks)
    IN IF preferred = CountPanic THEN CountPanic
       ELSE IF max > 0 /\ preferred > max THEN max
       ELSE preferred

\* The surface reports some capabilities.
ImageCountInit ==
    /\ RendererInit
    /\ present_modes = <<>>
    /\ present_mode = "unset"
    /\ formats = <<>>
    /\ surface_format = NoFormat
    /\ min_image_count \in 0 .. MaxU32
    /\ max_image_count \in 0 .. MaxU32
    /\ image_count = NoCount
    /\ OthersInit

\* Swapchain::new up to the image count, built with or without overflow checks.
ChooseImageCount ==
    /\ image_count = NoCount
    /\ \E overflow_checks \in BOOLEAN :
          image_count' = ImageCount(min_image_count, max_image_count, overflow_checks)
    /\ UNCHANGED <<rvars, present_modes, present_mode, formats, surface_format,
                   min_image_count, max_image_count, ovars>>

ImageCountNext == ChooseImageCount

ImageCountSpec == ImageCountInit /\ [][ImageCountNext]_vars

\* What vkMapMemory can answer.
MapResults == {"SUCCESS", "ERROR_MEMORY_MAP_FAILED"}

\* The Buffer as a method finds it; the method's calls are collected in calls.
ThisBuffer == [is_locked |-> is_locked, status |-> "ok", calls |-> <<>>]

LockMemoryUnchecked(b, r) ==
    [is_locked |-> TRUE,
     status |-> IF r = "SUCCESS" THEN "ok" ELSE "unwrap",
     calls |-> Append(b.calls, [op |-> "map_memory", result |-> r])]

\* Buffer::lock_memory: the assertion, the flag, map_memory(..).unwrap().
LockMemory(b, r) ==
    IF b.is_locked THEN [b EXCEPT !.status = "assertion"]
    ELSE [is_locked |-> TRUE,
          status |-> IF r = "SUCCESS" THEN "ok" ELSE "unwrap",
          calls |-> Append(b.calls, [op |-> "map_memory", result |-> r])]

UnlockMemoryKeepsFlag(b) ==
    IF ~b.is_locked THEN b
    ELSE [b EXCEPT !.calls = Append(@, [op |-> "unmap_memory", result |-> "SUCCESS"])]

\* Buffer::unlock_memory: nothing when unlocked, else the flag and unmap_memory.
UnlockMemory(b) ==
    IF ~b.is_locked THEN b
    ELSE [b EXCEPT !.is_locked = FALSE,
                   !.calls = Append(@, [op |-> "unmap_memory", result |-> "SUCCESS"])]

\* Buffer::load_value and Buffer::load_slice: lock_memory, the copy, unlock_memory.
Load(b, r) ==
    LET locked == LockMemory(b, r)
    IN IF locked.status # "ok" THEN locked
       ELSE UnlockMemory([locked EXCEPT
                !.calls = Append(@, [op |-> "copy_from_nonoverlapping", result |-> "SUCCESS"])])

\* A method of the Buffer is called and leaves the Buffer as after.
BufferCall(method, after) ==
    /\ buffer_status = "ok"
    /\ Len(buffer_log) < MaxBufferOps
    /\ is_locked' = after.is_locked
    /\ buffer_status' = after.status
    /\ buffer_calls' = after.calls
    /\ buffer_log' = Append(buffer_log, method)
    /\ UNCHANGED <<rvars, svars, lvars, nvars>>

lock_memory == \E r \in MapResults : BufferCall("lock_memory", LockMemory(ThisBuffer, r))

unlock_memory == BufferCall("unlock_memory", UnlockMemory(ThisBuffer))

load_value == \E r \in MapResults : BufferCall("load_value", Load(ThisBuffer, r))

load_slice == \E r \in MapResults : BufferCall("load_slice", Load(ThisBuffer, r))

BufferNext == lock_memory \/ unlock_memory \/ load_value \/ load_slice

\* A Buffer and a caller of its methods; the renderer is not exercised.
BufferSpec == Init /\ [][BufferNext]_vars

\* The calls of the last Buffer method that are of operation op.
BufferCallsOf(op) == {i \in DOMAIN buffer_calls : buffer_calls[i].op = op}

\* The Buffer methods that load data.
Loads == {"load_value", "load_slice"}

\* The values pushed into the FreeList.
Values == {"a", "b"}

\* FreeList::find_empty_index over the first c slots: the first flagged slot, or None.
find_empty_index(c, flags) ==
    IF \E i \in 0 .. (c - 1) : flags[i]
    THEN CHOOSE i \in 0 .. (c - 1) : flags[i] /\ \A j \in 0 .. (i - 1) : ~flags[j]
    ELSE None

\* FreeList::grow: the new capacity it allocates for.
GrowCap(c) == IF c = 0 THEN 1 ELSE IF c = 1 THEN 2 ELSE (3 * c) \div 2

\* FreeList::grow: the reallocated array, the slots from c on are new (filled with fill).
Grown(array, c, fill) ==
    [i \in 0 .. (GrowCap(c) - 1) |-> IF i < c THEN array[i] ELSE fill]

\* FreeList::push_first: find a flagged slot, grow when there is none (grow
\* does not assign cap), write the value and write true to the flag.
push_first ==
    /\ list_status = "live" /\ Len(pushed) < MaxPush
    /\ \E value \in Values :
        LET found == find_empty_index(cap, free_indices)
            grows == found = None
            flags == IF grows THEN Grown(free_indices, cap, TRUE) ELSE free_indices
            slots == IF grows THEN Grown(data, cap, Uninit) ELSE data
            insert_index == IF grows THEN find_empty_index(cap, flags) ELSE found
        IN /\ allocated' = IF grows THEN GrowCap(cap) ELSE allocated
           /\ IF insert_index = None
              THEN \* find_empty_index().unwrap()
                   /\ list_status' = "panicked"
                   /\ data' = slots
                   /\ free_indices' = flags
                   /\ pushed' = pushed
              ELSE /\ list_status' = "live"
                   /\ data' = [slots EXCEPT ![insert_index] =
                                   [id |-> Len(pushed) + 1, value |-> value]]
                   /\ free_indices' = [flags EXCEPT ![insert_index] = TRUE]
                   /\ pushed' = Append(pushed, [index |-> insert_index, value |-> value])
    /\ UNCHANGED <<cap, dropped>>
    /\ UNCHANGED <<rvars, svars, bvars, nvars>>

\* The slots 0 .. c - 1 whose flag is set, in ascending order.
FlaggedSlots(c, flags) ==
    SelectSeq([i \in 1 .. c |-> i - 1], LAMBDA i : flags[i])

\* Drop for FreeList: nothing when cap is 0, else drop_in_place on every slot
\* whose flag is set, and the two deallocations; drop_in_place on a slot that
\* was never written is undefined behaviour, the program may crash there.
FreeListDrop ==
    /\ list_status \in {"live", "panicked"}
    /\ dropped' = IF cap = 0 THEN <<>> ELSE FlaggedSlots(cap, free_indices)
    /\ \E crash \in BOOLEAN :
          list_status' =
              IF crash /\ \E k \in DOMAIN dropped' : data[dropped'[k]] = Uninit
              THEN "crashed" ELSE "dropped"
    /\ UNCHANGED <<cap, allocated, data, free_indices, pushed>>
    /\ UNCHANGED <<rvars, svars, bvars, nvars>>

\* FreeList::new or FreeList::with_capacity of some capacity.
FreeListInit ==
    /\ RendererInit
    /\ present_modes = <<>>
    /\ present_mode = "unset"
    /\ formats = <<>>
    /\ surface_format = NoFormat
    /\ NoCapabilities
    /\ BufferNew
    /\ NoNodes
    /\ \E c \in 0 .. MaxCap : FreeListOf(c)

FreeListNext == push_first \/ FreeListDrop

FreeListSpec == FreeListInit /\ [][FreeListNext]_vars

\* Node::new: the caller holds a new Node without children.
NodeNew ==
    /\ iter_status = "none"
    /\ node_count < MaxNodes
    /\ node_count' = node_count + 1
    /\ owned' = owned \cup {node_count + 1}
    /\ UNCHANGED <<first_child, next_sibling, parent, stale,
                   iter_root, iter_current, yielded, iter_status>>
    /\ UNCHANGED <<rvars, svars, bvars, lvars>>

RECURSIVE LastSibling(_)
\* Node::add_child: the loop to the last node of a sibling chain.
LastSibling(c) ==
    IF next_sibling[c] = None THEN c ELSE LastSibling(next_sibling[c])

\* Node::add_child on a Node p the caller holds, with a Node c it holds: c gets
\* the address of p as parent and is moved into a Box at the end of p's
\* children; the children of c keep the address c was moved from.
add_child ==
    /\ iter_status = "none"
    /\ \E p \in owned, c \in owned :
        /\ p # c
        /\ parent' = [parent EXCEPT ![c] = p]
        /\ IF first_child[p] # None
           THEN /\ next_sibling' =
                      [next_sibling EXCEPT ![LastSibling(first_child[p])] = c]
                /\ first_child' = first_child
           ELSE /\ first_child' = [first_child EXCEPT ![p] = c]
                /\ next_sibling' = next_sibling
        /\ owned' = owned \ {c}
        /\ stale' = stale \cup {g \in NodeIds : parent[g] = c}
    /\ UNCHANGED <<node_count, iter_root, iter_current, yielded, iter_status>>
    /\ UNCHANGED <<rvars, svars, bvars, lvars>>

\* Node::iter on any Node of the trees: NodeIterator::new.
iter ==
    /\ iter_status = "none"
    /\ \E x \in 1 .. node_count :
        /\ iter_root' = x
        /\ iter_current' = x
    /\ yielded' = <<>>
    /\ iter_status' = "running"
    /\ UNCHANGED <<node_count, first_child, next_sibling, parent, stale, owned>>
    /\ UNCHANGED <<rvars, svars, bvars, lvars>>

\* The walk-up of NodeIterator::next read through a pointer that dangles.
Dangling == -2

RECURSIVE WalkUp(_, _, _)
\* NodeIterator::next: the while loop over the ancestors. p is current_parent,
\* via the node whose parent field p was read from, cur is self.current so
\* far. The loop has no break: it runs to the top of the tree.
WalkUp(p, via, cur) ==
    IF p = None THEN cur
    ELSE IF via \in stale THEN Dangling
    ELSE LET at_root == IF p = iter_root THEN None ELSE cur
             at_sibling == IF next_sibling[p] # None THEN next_sibling[p] ELSE at_root
         IN WalkUp(parent[p], p, at_sibling)

\* NodeIterator::next: self.current after the call, when it was the node current.
NextCurrent(current) ==
    IF first_child[current] # None THEN first_child[current]
    ELSE IF next_sibling[current] # None THEN next_sibling[current]
    ELSE IF parent[current] # None THEN WalkUp(parent[current], current, current)
    ELSE None

\* NodeIterator::next: returns self.current and moves it on; reading through
\* a dangling parent pointer is undefined behaviour, current may become anything.
NodeIteratorNext ==
    /\ iter_status = "running"
    /\ \/ /\ iter_current = None
          /\ iter_status' = "ended"
          /\ UNCHANGED <<iter_current, yielded>>
       \/ /\ iter_current # None
          /\ Len(yielded) < MaxYield
          /\ yielded' = Append(yielded, iter_current)
          /\ IF NextCurrent(iter_current) = Dangling
             THEN /\ iter_status' = "ub"
                  /\ iter_current' \in (1 .. node_count) \cup {None}
             ELSE /\ iter_status' = "running"
                  /\ iter_current' = NextCurrent(iter_current)
    /\ UNCHANGED <<node_count, first_child, next_sibling, parent, stale, owned, iter_root>>
    /\ UNCHANGED <<rvars, svars, bvars, lvars>>

NodeNext == NodeNew \/ add_child \/ iter \/ NodeIteratorNext

\* Nodes, trees built from them, and one iteration; the renderer is not exercised.
NodeSpec == Init /\ [][NodeNext]_vars

RECURSIVE Subtree(_), SiblingsFrom(_)
\* The nodes of the subtree of n in depth-first pre-order, children in insertion order.
Subtree(n) ==
    <<n>> \o (IF first_child[n] # None THEN SiblingsFrom(first_child[n]) ELSE <<>>)

\* The subtrees of c and of the siblings after it, in order.
SiblingsFrom(c) ==
    Subtree(c) \o (IF next_sibling[c] # None THEN SiblingsFrom(next_sibling[c]) ELSE <<>>)

\* s is a prefix of t.
IsPrefix(s, t) == Len(s) <= Len(t) /\ \A i \in DOMAIN s : s[i] = t[i]

\* The calls of the current tick that are of operation op.
CallsOf(op) == {i \in DOMAIN calls : calls[i].op = op}

\* The tick's acquire gave an image.
Acquired == \E i \in CallsOf("acquire_next_image") : AcquireReturn(calls[i].result) # None

TypeOK ==
    /\ current_frame \in Slots
    /\ current_image_index \in 0 .. (num_images - 1)
    /\ out_of_date \in BOOLEAN
    /\ num_images \in ImageCounts
    /\ pc \in {"idle", "recreated", "in_frame"}
    /\ status \in {"running", "panicked", "dropped"}
    /\ Len(queue) <= MaxQueue

(***************************************************************************)
(* C1: no submit that writes image i is issued while the batch of an       *)
(* earlier cycle that wrote image i (the one whose fence the image-in-use  *)
(* entry of i would hold) has not yet signalled its fence. Only batches    *)
(* recorded in their own frame are counted.                                *)
(***************************************************************************)
C1_NoPrematureReuse ==
    \A a, b \in DOMAIN queue :
        (a < b /\ queue[a].recorded /\ queue[b].recorded)
            => queue[a].image # queue[b].image

(***************************************************************************)
(* C2: no command buffer is being recorded (begun in begin_frame) while a  *)
(* submission of that same command buffer is still pending on the device.  *)
(***************************************************************************)
C2_NoRecordWhilePending ==
    \A j \in CommandBufferIds : recording[j] => ~Pending(j)

(***************************************************************************)
(* C3: the k-th begin_frame (k = 0, 1, ...) takes sync object k mod        *)
(* MAX_FRAMES_IN_FLIGHT, whatever the image count and whatever acquire     *)
(* returns, and the ring index stays in range.                             *)
(***************************************************************************)
C3_RingCycling ==
    /\ current_frame = frames % MAX_FRAMES_IN_FLIGHT
    /\ \A i \in CallsOf("wait_for_fences") :
          calls[i].fence = (frames - 1) % MAX_FRAMES_IN_FLIGHT
    /\ \A i \in CallsOf("acquire_next_image") :
          calls[i].sem = ImageAvailable((frames - 1) % MAX_FRAMES_IN_FLIGHT)

C3_Witness ==
    /\ frames = MAX_FRAMES_IN_FLIGHT + 1
    /\ num_images # MAX_FRAMES_IN_FLIGHT
    /\ pc = "in_frame"
    /\ \E i \in CallsOf("wait_for_fences") : calls[i].fence = 0
    /\ Acquired /\ current_image_index = 2

(***************************************************************************)
(* C4: in a frame whose acquire gave an image, the semaphore the submit    *)
(* waits on is the semaphore that was passed to the acquire.               *)
(***************************************************************************)
C4_SubmitWaitsOnAcquireSignal ==
    \A i \in CallsOf("acquire_next_image"), j \in CallsOf("queue_submit") :
        AcquireReturn(calls[i].result) # None => calls[j].batch.wait = calls[i].sem

(***************************************************************************)
(* C5: the semaphore present waits on is the semaphore the same frame's    *)
(* submit signals on completion.                                           *)
(***************************************************************************)
C5_PresentWaitsOnSubmitComplete ==
    \A i \in CallsOf("queue_submit"), j \in CallsOf("queue_present") :
        calls[j].wait = calls[i].batch.signal

(***************************************************************************)
(* C6: the fence passed to queue_submit is the fence begin_frame waited on *)
(* and reset in the same frame, and it is unsignalled at the submit.       *)
(***************************************************************************)
C6_SubmitFenceWasReset ==
    \A i \in CallsOf("reset_fences"), j \in CallsOf("queue_submit") :
        /\ calls[j].batch.fence = calls[i].fence
        /\ ~calls[j].fence_signalled

(***************************************************************************)
(* C7: a tick whose acquire returned Stale issues no submit and no         *)
(* present.                                                                *)
(***************************************************************************)
C7_StaleTickSubmitsNothing ==
    \A i \in CallsOf("acquire_next_image") :
        calls[i].result.code = "ERROR_OUT_OF_DATE_KHR" =>
            CallsOf("queue_submit") \cup CallsOf("queue_present") = {}

(***************************************************************************)
(* C8: no acquire is issued while out_of_date is true (every begin_frame   *)
(* step starts from a state whose dirty flag is false).                    *)
(***************************************************************************)
C8_NoAcquireWhileDirty == [][frames' # frames => ~out_of_date]_vars

(***************************************************************************)
(* C9: when begin_frame got no image index from acquire, out_of_date is    *)
(* true afterwards and the program has not failed fatally.                 *)
(***************************************************************************)
C9_NoImageMeansDirty ==
    \A i \in CallsOf("acquire_next_image") :
        (pc = "in_frame" /\ AcquireReturn(calls[i].result) = None) =>
            (out_of_date /\ status = "running")

(***************************************************************************)
(* C10: when present reports out-of-date in a frame whose acquire gave an  *)
(* image, the frame was submitted exactly once, out_of_date is set and the *)
(* program keeps running.                                                  *)
(***************************************************************************)
C10_StalePresent ==
    \A j \in CallsOf("queue_present") :
        (Acquired /\ calls[j].result = "ERROR_OUT_OF_DATE_KHR") =>
            /\ Cardinality(CallsOf("queue_submit")) = 1
            /\ out_of_date
            /\ status = "running"

C10_Witness ==
    /\ Acquired
    /\ \E j \in CallsOf("queue_present") : calls[j].result = "ERROR_OUT_OF_DATE_KHR"
    /\ pc = "idle"
    /\ frames > 1

(***************************************************************************)
(* C11: a failure of acquire, submit or present other than out-of-date is  *)
(* fatal: whenever one of these calls has answered with another error the  *)
(* program has panicked (it is not returned as a skipped frame).           *)
(***************************************************************************)
C11_OtherFailureIsFatal ==
    /\ \A i \in CallsOf("acquire_next_image") :
          calls[i].result.code = "ERROR_OTHER" => status # "running"
    /\ \A i \in CallsOf("queue_submit") \cup CallsOf("queue_present") :
          calls[i].result = "ERROR_OTHER" => status # "running"
\* The wait_for_fences of the next begin_frame can return: its fence is
\* signalled, or a batch the device has yet to complete will signal it.
WaitCanReturn ==
    fence[current_frame] \/ \E i \in DOMAIN queue : queue[i].fence = current_frame

ImageInUse(i) == None

(***************************************************************************)
(* C13: after a frame has been submitted, the image-in-use entry of the    *)
(* acquired image is the completion fence that was passed to the submit.   *)
(***************************************************************************)
C13_SubmitUpdatesImageInUse ==
    \A j \in CallsOf("queue_submit") :
        (Acquired /\ calls[j].result = "SUCCESS") =>
            ImageInUse(calls[j].batch.image) = calls[j].batch.fence
DestroyOps ==
    {"destroy_semaphore", "destroy_fence", "free_command_buffers", "destroy_command_pool",
     "destroy_image_view", "destroy_swapchain", "destroy_device", "destroy_surface",
     "destroy_instance"}

\* The destroy calls of the log.
Destroys == {i \in DOMAIN calls : calls[i].op \in DestroyOps}

\* Every call of the log with an operation of A comes before every one with an operation of B.
Before(A, B) ==
    \A i, j \in DOMAIN calls : (calls[i].op \in A /\ calls[j].op \in B) => i < j

(***************************************************************************)
(* C14: the renderer's sync objects and command buffers, its swapchain and *)
(* the device are never destroyed while a submitted batch is outstanding   *)
(* (the device has been waited idle since the last submit).                *)
(***************************************************************************)
C14_IdleBeforeDestroy ==
    (status = "dropped" /\ Destroys # {}) => queue = <<>>

(***************************************************************************)
(* C15 as claimed: command buffers and command pool are destroyed first,   *)
(* then semaphores and fences, then the swapchain, then the device.        *)
(***************************************************************************)
C15_CommandThenSync ==
    status = "dropped" =>
        /\ Before({"free_command_buffers", "destroy_command_pool"},
                  {"destroy_semaphore", "destroy_fence"})
        /\ Before({"destroy_semaphore", "destroy_fence"},
                  {"destroy_image_view", "destroy_swapchain"})
        /\ Before({"destroy_image_view", "destroy_swapchain"}, {"destroy_device"})

(***************************************************************************)
(* C15 as amended: semaphores and fences are destroyed first, then the     *)
(* command buffers, then the command pool, then the swapchain, then the    *)
(* device.                                                                 *)
(***************************************************************************)
C15_SyncThenCommand ==
    status = "dropped" =>
        /\ Before({"destroy_semaphore", "destroy_fence"},
                  {"free_command_buffers", "destroy_command_pool"})
        /\ Before({"free_command_buffers"}, {"destroy_command_pool"})
        /\ Before({"free_command_buffers", "destroy_command_pool"},
                  {"destroy_image_view", "destroy_swapchain"})
        /\ Before({"destroy_image_view", "destroy_swapchain"}, {"destroy_device"})

C15_Witness ==
    /\ status = "dropped"
    /\ frames >= MAX_FRAMES_IN_FLIGHT
    /\ Cardinality({i \in Destroys : calls[i].op = "free_command_buffers"}) = MaxImages
    /\ CallsOf("destroy_device") # {}

\* The handles Renderer::new created for the slots: semaphores, fences, command buffers.
SlotHandles ==
    {ImageAvailable(n) : n \in Slots} \cup {QueueComplete(n) : n \in Slots}
    \cup {InFlightFence(n) : n \in Slots}
    \cup {<<"command_buffer", j>> : j \in 0 .. (num_images - 1)}

(***************************************************************************)
(* C16: after a shutdown that began with device_wait_idle, every           *)
(* semaphore, fence and command buffer of the renderer has been destroyed  *)
(* exactly once, and the device holds no batch that uses one of them.      *)
(***************************************************************************)
C16_ReleasedExactlyOnce ==
    (status = "dropped" /\ calls[1].op = "device_wait_idle") =>
        /\ \A h \in SlotHandles :
              Cardinality({i \in Destroys : calls[i].handle = h}) = 1
        /\ queue = <<>>

C16_Witness ==
    /\ status = "dropped" /\ calls[1].op = "device_wait_idle"
    /\ frames > MAX_FRAMES_IN_FLIGHT
    /\ num_images # MAX_FRAMES_IN_FLIGHT
    /\ out_of_date
(***************************************************************************)
(* C17: when recreate_swapchain has run, the old swapchain was destroyed   *)
(* only after device_wait_idle with no batch outstanding, a new swapchain  *)
(* was created, and out_of_date is false.                                  *)
(***************************************************************************)
C17_RecreateAfterIdle ==
    (pc = "recreated" /\ status = "running") =>
        /\ ~out_of_date
        /\ queue = <<>>
        /\ CallsOf("create_swapchain") # {}
        /\ \E w \in CallsOf("device_wait_idle") :
              \A i \in CallsOf("create_swapchain") \cup Destroys : w < i

C17_Witness ==
    /\ pc = "recreated" /\ status = "running"
    /\ frames > MAX_FRAMES_IN_FLIGHT
    /\ CallsOf("destroy_swapchain") # {}
    /\ ~out_of_date
\* Renderer::new: command_buffers has one element per swapchain image.
NumCommandBuffers == num_images

(***************************************************************************)
(* C18: the slot index current_frame is a valid index of command_buffers   *)
(* in every reachable state, also when the surface has fewer images than   *)
(* MAX_FRAMES_IN_FLIGHT.                                                   *)
(***************************************************************************)
C18_SlotIndexInRange == current_frame < NumCommandBuffers
(***************************************************************************)
(* C19: a tick issues at most one acquire, and no swapchain is recreated   *)
(* once begin_frame has started: a Stale acquire or present is not retried *)
(* within the frame.                                                       *)
(***************************************************************************)
C19_NoRetryWithinFrame ==
    /\ Cardinality(CallsOf("acquire_next_image")) <= 1
    /\ \A i \in CallsOf("create_swapchain"), j \in CallsOf("wait_for_fences") : i < j

C19_Witness ==
    /\ pc = "idle" /\ status = "running"
    /\ \E i \in CallsOf("acquire_next_image") :
          calls[i].result.code = "ERROR_OUT_OF_DATE_KHR"
    /\ CallsOf("create_swapchain") # {}
    /\ out_of_date
(***************************************************************************)
(* C20: for a non-empty list of available present modes the chosen mode is *)
(* MAILBOX if it is available, else FIFO if it is available, and in every  *)
(* case a mode of the list.                                                *)
(***************************************************************************)
C20_PresentModeChoice ==
    (present_mode # "unset" /\ present_modes # <<>>) =>
        /\ Contains(present_modes, "MAILBOX") => present_mode = "MAILBOX"
        /\ (~Contains(present_modes, "MAILBOX") /\ Contains(present_modes, "FIFO"))
              => present_mode = "FIFO"
        /\ Contains(present_modes, present_mode)
(***************************************************************************)
(* C21 as claimed: for a non-empty list of surface formats the chosen      *)
(* format is the preferred format if it is in the list, else the first     *)
(* format of the list.                                                     *)
(***************************************************************************)
C21_PreferredElseFirst ==
    (surface_format # NoFormat /\ formats # <<>>) =>
        surface_format =
            IF \E i \in DOMAIN formats : formats[i] = PreferredFormat
            THEN PreferredFormat ELSE formats[1]

(***************************************************************************)
(* C21 as amended: a list of the single entry whose format is UNDEFINED    *)
(* gives the preferred format; any other non-empty list gives the          *)
(* preferred format if it is in the list, else the first format of the     *)
(* list.                                                                   *)
(***************************************************************************)
C21_UndefinedOrPreferredElseFirst ==
    (surface_format # NoFormat /\ formats # <<>>) =>
        surface_format =
            IF Len(formats) = 1 /\ formats[1].format = "UNDEFINED" THEN PreferredFormat
            ELSE IF \E i \in DOMAIN formats : formats[i] = PreferredFormat
            THEN PreferredFormat ELSE formats[1]

C21_Witness ==
    /\ Len(formats) = 1 /\ formats[1].format = "UNDEFINED"
    /\ formats[1].color_space # "SRGB_NONLINEAR"
    /\ surface_format = PreferredFormat
(***************************************************************************)
(* C22: lock_memory on a buffer that is already locked panics on its       *)
(* assertion, issues no map_memory, and leaves the buffer locked; it never *)
(* returns normally.                                                       *)
(***************************************************************************)
C22_DoubleLockIsFatal ==
    [][(buffer_log' # buffer_log /\ buffer_log'[Len(buffer_log')] = "lock_memory"
          /\ is_locked)
        => (buffer_status' = "assertion" /\ buffer_calls' = <<>> /\ is_locked')]_vars

C22_Witness ==
    /\ Len(buffer_log) >= 3
    /\ buffer_log[Len(buffer_log)] = "lock_memory"
    /\ buffer_log[Len(buffer_log) - 1] = "lock_memory"
    /\ buffer_status = "assertion"
    /\ BufferCallsOf("map_memory") = {}
    /\ is_locked

\* The step is a call of unlock_memory on a buffer that is not locked.
UnlockOfUnlocked ==
    /\ buffer_log' # buffer_log
    /\ buffer_log'[Len(buffer_log')] = "unlock_memory"
    /\ ~is_locked

(***************************************************************************)
(* C29: a load that returns has mapped, copied and unmapped once and       *)
(* leaves the buffer unlocked; a sequence of loads alone never fails the   *)
(* double-lock assertion; unlock_memory on an unlocked buffer changes      *)
(* nothing and issues no unmap_memory.                                     *)
(***************************************************************************)
C29_LockBalanced ==
    /\ []((buffer_log # <<>> /\ buffer_log[Len(buffer_log)] \in Loads
              /\ buffer_status = "ok")
            => (/\ ~is_locked
                /\ Len(buffer_calls) = 3
                /\ buffer_calls[1].op = "map_memory"
                /\ buffer_calls[2].op = "copy_from_nonoverlapping"
                /\ buffer_calls[3].op = "unmap_memory"))
    /\ []((\A i \in DOMAIN buffer_log : buffer_log[i] \in Loads)
            => (buffer_status # "assertion" /\ (buffer_status = "ok" => ~is_locked)))
    /\ [][UnlockOfUnlocked
            => (~is_locked' /\ buffer_calls' = <<>> /\ buffer_status' = "ok")]_vars

C29_Witness ==
    /\ buffer_log = <<"load_value", "load_slice", "unlock_memory", "load_value">>
    /\ buffer_status = "ok"
    /\ ~is_locked
    /\ BufferCallsOf("unmap_memory") # {}
(***************************************************************************)
(* C23: in a frame whose acquire gave an image, a present that does not    *)
(* panic returns true (Stale) to its caller exactly when the device        *)
(* answered out-of-date, and it is exactly then that it sets out_of_date;  *)
(* every other present returns false (Ok) and leaves out_of_date as it     *)
(* was.                                                                    *)
(***************************************************************************)
C23_StaleIffOutOfDate ==
    [][(Acquired /\ pc = "in_frame" /\ pc' = "idle" /\ status' = "running")
        => \A j \in DOMAIN calls' :
              calls'[j].op = "queue_present" =>
                  /\ returned' <=> (calls'[j].result = "ERROR_OUT_OF_DATE_KHR")
                  /\ calls'[j].result = "ERROR_OUT_OF_DATE_KHR" => out_of_date'
                  /\ calls'[j].result # "ERROR_OUT_OF_DATE_KHR"
                        => out_of_date' = out_of_date]_vars
(***************************************************************************)
(* C26: for capabilities with min <= max, or max = 0, the image count that *)
(* is asked for is min + 1, lowered to max when max > 0 and min + 1 > max; *)
(* it is at least min and, when max > 0, at most max.                      *)
(***************************************************************************)
C26_ImageCountWithinBounds ==
    (/\ image_count \notin {NoCount, CountPanic}
     /\ (min_image_count <= max_image_count \/ max_image_count = 0)) =>
        /\ image_count >= min_image_count
        /\ max_image_count > 0 => image_count <= max_image_count
(***************************************************************************)
(* C27: a begin_frame whose acquire gives no image leaves every fence and  *)
(* every command buffer as it was: the fence it waited on is not reset and *)
(* is still signalled, and no recording is begun.                          *)
(***************************************************************************)
C27_SkipLeavesSyncUntouched ==
    [][(/\ frames' # frames
        /\ \E i \in DOMAIN calls' :
              /\ calls'[i].op = "acquire_next_image"
              /\ AcquireReturn(calls'[i].result) = None)
        => (/\ fence' = fence
            /\ fence'[current_frame]
            /\ recording' = recording
            /\ \A i \in DOMAIN calls' :
                  calls'[i].op \notin {"reset_fences", "begin_command_buffer"})]_vars

C27_Witness ==
    /\ pc = "in_frame" /\ status = "running"
    /\ frames = MAX_FRAMES_IN_FLIGHT
    /\ CallsOf("acquire_next_image") # {} /\ ~Acquired
    /\ queue # <<>>
    /\ fence[NextFrame(current_frame)]

(***************************************************************************)
(* C28: current_frame is always in 0 .. MAX_FRAMES_IN_FLIGHT - 1; every    *)
(* begin_frame, with or without an image, advances it by one modulo        *)
(* MAX_FRAMES_IN_FLIGHT, and no other step (end_frame, recreate_swapchain, *)
(* the device, shutdown) changes it.                                       *)
(***************************************************************************)
C28_RingIndexOnlyInBeginFrame ==
    /\ [](current_frame \in 0 .. (MAX_FRAMES_IN_FLIGHT - 1))
    /\ [][IF frames' # frames
           THEN current_frame' = (current_frame + 1) % MAX_FRAMES_IN_FLIGHT
           ELSE current_frame' = current_frame]_vars

C28_Witness ==
    /\ pc = "recreated"
    /\ frames = MAX_FRAMES_IN_FLIGHT + 1
    /\ current_frame = 1
    /\ ~Acquired
(***************************************************************************)
(* C24: the indices push_first has returned are pairwise distinct, and     *)
(* the slot of every index it returned still holds the element that was    *)
(* pushed there.                                                           *)
(***************************************************************************)
C24_StableIndices ==
    /\ \A a, b \in DOMAIN pushed : a # b => pushed[a].index # pushed[b].index
    /\ \A a \in DOMAIN pushed : data[pushed[a].index].id = a

(***************************************************************************)
(* C30: when the FreeList has been dropped, the slots passed to            *)
(* drop_in_place are exactly the slots that hold a pushed value, each      *)
(* once, and none of them is a slot that was never written.                *)
(***************************************************************************)
C30_DropsExactlyPushedSlots ==
    list_status \in {"dropped", "crashed"} =>
        /\ {dropped[k] : k \in DOMAIN dropped} = {pushed[a].index : a \in DOMAIN pushed}
        /\ \A j, k \in DOMAIN dropped : j # k => dropped[j] # dropped[k]
        /\ \A k \in DOMAIN dropped : data[dropped[k]] # Uninit
(***************************************************************************)
(* C25: an iteration started with X.iter() yields the nodes of the subtree *)
(* of X in depth-first pre-order, children in insertion order, each once:  *)
(* what it has yielded is always a prefix of that order, it is the whole   *)
(* order when next returns None, and no step reads a dangling pointer.     *)
(***************************************************************************)
C25_DepthFirstPreOrder ==
    iter_status # "none" =>
        /\ IsPrefix(yielded, Subtree(iter_root))
        /\ iter_status = "ended" => yielded = Subtree(iter_root)
        /\ iter_status # "ub"
====
